---- MODULE Spec2Model ----
(***************************************************************************)
(* Streaming chat session engine of the Deep Research Agent frontend:      *)
(* the SSE frame decoder and dispatcher of api.ts (sendChatMessage) and    *)
(* the App component of types.ts that applies the dispatched events to     *)
(* the React state (messages, isLoading, streamingContent, liveTrace).     *)
(*                                                                         *)
(* Text is modelled as a sequence of symbols.  A symbol stands for an      *)
(* atomic run of characters: "NL" is one newline, "P" is the literal       *)
(* 'data: ', "X" is a non-blank character that is no JSON text, and each   *)
(* member of Payloads is the text of one JSON value.  On the wire the      *)
(* symbols "L" and "K" are the lead and the continuation byte of a         *)
(* two-byte UTF-8 character.                                               *)
(***************************************************************************)
EXTENDS Integers, Sequences, FiniteSets, TLC

\* ---------------------------------------------------------------- bounds
MaxStream == 4      \* bytes a response stream carries in WireSpec
MaxChunk == 2       \* bytes one reader.read() returns in WireSpec

\* ------------------------------------------------------------- sequences
Range(s) == {s[i] : i \in 1..Len(s)}
Front(s) == SubSeq(s, 1, Len(s) - 1)
Last(s) == s[Len(s)]

RECURSIVE SeqsUpTo(_, _)
SeqsUpTo(S, n) ==
  IF n = 0 THEN {<<>>}
  ELSE LET shorter == SeqsUpTo(S, n - 1)
       IN  shorter \cup {Append(s, x) : s \in {t \in shorter : Len(t) = n - 1}, x \in S}

\* ------------------------------------------------------------ wire text
\* The JSON texts a frame may carry, and what JSON.parse makes of each.
Payloads == {"done", "error", "full", "tokA", "tokB", "trT", "trU", "null"}

JNull == [type |-> "null", message |-> "null"]

JSONValue(p) ==
  CASE p = "done"  -> [type |-> "done", message |-> "undefined"]
    [] p = "error" -> [type |-> "error", message |-> "boom"]
    [] p = "full"  -> [type |-> "full_response", message |-> "F"]
    [] p = "tokA"  -> [type |-> "stream_token", message |-> "a"]
    [] p = "tokB"  -> [type |-> "stream_token", message |-> "b"]
    [] p = "trT"   -> [type |-> "agent_start", message |-> "step"]
    [] p = "trU"   -> [type |-> "undefined", message |-> "plain"]
    [] OTHER       -> JNull

IsSpace(c) == c = "NL"

RECURSIVE TrimStart(_)
TrimStart(s) ==
  IF s # <<>> /\ IsSpace(Head(s)) THEN TrimStart(Tail(s)) ELSE s

RECURSIVE TrimEnd(_)
TrimEnd(s) ==
  IF s # <<>> /\ IsSpace(Last(s)) THEN TrimEnd(Front(s)) ELSE s

\* String.prototype.trim
Trim(s) == TrimEnd(TrimStart(s))

\* TextDecoder.decode(value, {stream: true}): st.pend holds an incomplete
\* character between calls, st.out the characters decoded so far.
DecodeByte(st, b) ==
  IF st.pend # <<>>
  THEN IF b = "K"
       THEN [pend |-> <<>>, out |-> Append(st.out, "U")]
       ELSE IF b = "L"
            THEN [pend |-> <<"L">>, out |-> Append(st.out, "R")]
            ELSE [pend |-> <<>>, out |-> st.out \o <<"R", b>>]
  ELSE IF b = "L"
       THEN [pend |-> <<"L">>, out |-> st.out]
       ELSE IF b = "K"
            THEN [pend |-> <<>>, out |-> Append(st.out, "R")]
            ELSE [pend |-> <<>>, out |-> Append(st.out, b)]

RECURSIVE DecodeFrom(_, _)
DecodeFrom(st, bytes) ==
  IF bytes = <<>> THEN st ELSE DecodeFrom(DecodeByte(st, Head(bytes)), Tail(bytes))

Decode(pend, bytes) == DecodeFrom([pend |-> pend, out |-> <<>>], bytes)

\* Index of the first "\n\n" of s at or after i, 0 when there is none.
RECURSIVE FindDelim(_, _)
FindDelim(s, i) ==
  IF i + 1 > Len(s) THEN 0
  ELSE IF s[i] = "NL" /\ s[i + 1] = "NL" THEN i
  ELSE FindDelim(s, i + 1)

\* String.prototype.split('\n\n')
RECURSIVE Split(_)
Split(s) ==
  LET i == FindDelim(s, 1)
  IN  IF i = 0 THEN <<s>>
      ELSE <<SubSeq(s, 1, i - 1)>> \o Split(SubSeq(s, i + 2, Len(s)))

\* A read loop that drops the unfinished tail of a chunk.
PopBufferDropped(lines) == <<>>

\* lines.pop() || ''
PopBuffer(lines) == Last(lines)

\* One pass of the read loop over a chunk: the lines it hands on, and the
\* buffer and decoder state it keeps.
Feed(buf, pend, chunk) ==
  LET d == Decode(pend, chunk)
      lines == Split(buf \o d.out)
  IN  [lines |-> Front(lines), buffer |-> PopBuffer(lines), pend |-> d.pend]


\* -------------------------------------------------------------- dispatch
JThrow == [type |-> "throw", message |-> "throw"]

\* JSON.parse(trimmed.slice(6)): the value, or JThrow on malformed text.
\* JSON.parse skips blanks around the value.
JSONParse(text) ==
  LET t == Trim(text)
  IN  IF Len(t) = 1 /\ t[1] \in Payloads THEN JSONValue(t[1]) ELSE JThrow

StartsWithData(trimmed) == trimmed # <<>> /\ Head(trimmed) = "P"

\* The callback one line makes sendChatMessage invoke, with the decoded
\* data it passes on; name "none" when the line is skipped.
NoCall == [name |-> "none", data |-> JThrow]

\* A dispatch that knows a closed list of event types and skips the rest.
DispatchAllowList(line) ==
  LET trimmed == Trim(line)
  IN  IF ~StartsWithData(trimmed) THEN NoCall
      ELSE LET data == JSONParse(Tail(trimmed))
           IN  IF data = JThrow THEN NoCall
               ELSE IF data = JNull THEN NoCall
               ELSE IF data.type = "done" THEN [name |-> "onDone", data |-> data]
               ELSE IF data.type = "error" THEN [name |-> "onError", data |-> data]
               ELSE IF data.type = "full_response"
                    THEN [name |-> "onFullResponse", data |-> data]
               ELSE IF data.type = "stream_token"
                    THEN [name |-> "onToken", data |-> data]
               ELSE IF data.type = "agent_start"
                    THEN [name |-> "onTrace", data |-> data]
               ELSE NoCall

Dispatch(line) ==
  LET trimmed == Trim(line)
  IN  IF ~StartsWithData(trimmed) THEN NoCall
      ELSE LET data == JSONParse(Tail(trimmed))
           IN  IF data = JThrow THEN NoCall
               ELSE IF data = JNull THEN NoCall   \* data.type throws: caught
               ELSE IF data.type = "done" THEN [name |-> "onDone", data |-> data]
               ELSE IF data.type = "error" THEN [name |-> "onError", data |-> data]
               ELSE IF data.type = "full_response"
                    THEN [name |-> "onFullResponse", data |-> data]
               ELSE IF data.type = "stream_token"
                    THEN [name |-> "onToken", data |-> data]
               ELSE [name |-> "onTrace", data |-> data]

\* ------------------------------------------------------------ app state
MaxOps == 2        \* user gestures (submit, upload, select, new, delete)
MaxFrames == 2      \* lines one response stream delivers
MaxChunkLines == 2  \* complete lines one chunk closes
MaxClock == 1       \* values Date.now() takes
MaxLoads == 1       \* getMessages requests in flight
MaxSrvMsgs == 2     \* messages the server stores per conversation

Null == "null"
ConvIds == {"c1", "c2", "c3"}
Queries == {"q"}

VARIABLES
  \* React state of App
  conversations, activeConvId, messages, isLoading, streamingContent, liveTrace,
  \* asynchronous work in flight
  mount,        \* the mount effect: "list", "msgs" or "done"
  sessions,     \* sendMessage calls awaiting sendChatMessage
  creates,      \* newConversation calls awaiting createConversation
  uploads,      \* uploadPDF calls
  loads,        \* loadMessages calls awaiting getMessages, per conversation
  listLoads,    \* loadConversations calls awaiting listConversations
  \* environment
  now,          \* Date.now()
  srvConvs,     \* the conversations the server lists, most recent first
  srvMsgs,      \* per conversation, how many messages the server has stored
  nextConv,     \* conversations the server has created so far
  listSnap,     \* the list the server has put into a response still on its way
  \* bookkeeping
  ops,          \* user gestures so far
  budget,       \* user gestures a behaviour may hold
  frameCap,     \* lines a response stream may deliver
  \* WireSpec: one response stream at byte level
  wStream, wBuffer, wPend, wLines, wOpen, wCuts

appVars == <<conversations, activeConvId, messages, isLoading, streamingContent,
             liveTrace, mount, sessions, creates, uploads, loads, listLoads,
             now, srvConvs, srvMsgs, nextConv, ops>>
wireVars == <<wStream, wBuffer, wPend, wLines, wOpen, wCuts>>
caps == <<budget, frameCap>>
idle == <<caps, wireVars, listSnap>>
vars == <<appVars, caps, wireVars, listSnap>>

\* activeConvRef.current: assigned from activeConvId on every render and
\* wherever activeConvId is set outside one.
activeConvRef == activeConvId

ConvIdsOf(convs) == {convs[i].id : i \in 1..Len(convs)}

\* What getMessages(c) returns when the server holds n messages of c.
SrvList(c, n) ==
  [i \in 1..n |->
     [id |-> <<"srv", i>>, conversation_id |-> c,
      role |-> IF i % 2 = 1 THEN "user" ELSE "assistant",
      content |-> <<"stored">>]]

\* The server stores one more message of conversation c, if it has c.
SrvStore(c) ==
  IF c \in ConvIdsOf(srvConvs) /\ srvMsgs[c] < MaxSrvMsgs
  THEN [srvMsgs EXCEPT ![c] = @ + 1]
  ELSE srvMsgs

RemoveAt(s, i) == SubSeq(s, 1, i - 1) \o SubSeq(s, i + 1, Len(s))

TotalLoads(l) == l["c1"] + l["c2"] + l["c3"]

\* --------------------------------------------- sendMessage's callbacks
\* The callbacks act on st: the React state they set, the requests they
\* start (loads, listLoads) and the closure variable fullResponse.

\* An optimistic message whose id carries no temp prefix.
UserMsgUntagged(convId, message, t) ==
  [id |-> <<"msg", t>>, conversation_id |-> convId, role |-> "user",
   content |-> <<message>>]

UserMsg(convId, message, t) ==
  [id |-> <<"temp", t>>, conversation_id |-> convId, role |-> "user",
   content |-> <<message>>]

ErrMsg(convId, error, t) ==
  [id |-> <<"err", t>>, conversation_id |-> convId, role |-> "assistant",
   content |-> <<"Error: ", error>>]

OnTrace(st, event) ==
  [st EXCEPT !.liveTrace = Append(st.liveTrace, event)]

\* A token handler that also empties the live trace.
OnTokenClearsTrace(st, token) ==
  [st EXCEPT !.fullResponse = Append(st.fullResponse, token),
             !.streamingContent = Append(st.fullResponse, token),
             !.liveTrace = <<>>]

OnToken(st, token) ==
  [st EXCEPT !.fullResponse = Append(st.fullResponse, token),
             !.streamingContent = Append(st.fullResponse, token)]

\* A full response that is appended like a token.
OnFullResponseAppends(st, msg) ==
  [st EXCEPT !.fullResponse = Append(st.fullResponse, msg),
             !.streamingContent = Append(st.fullResponse, msg)]

OnFullResponse(st, msg) ==
  [st EXCEPT !.fullResponse = <<msg>>, !.streamingContent = <<msg>>]

\* A done handler that starts no reload.
OnDoneNoReload(st, convId) ==
  [st EXCEPT !.streamingContent = <<>>,
             !.liveTrace = <<>>,
             !.isLoading = FALSE,
             !.listLoads = @ + 1]

OnDone(st, convId) ==
  [st EXCEPT !.loads = [st.loads EXCEPT ![convId] = @ + 1],
             !.streamingContent = <<>>,
             !.liveTrace = <<>>,
             !.isLoading = FALSE,
             !.listLoads = @ + 1]

OnError(st, convId, error, t) ==
  [st EXCEPT !.messages = Append(st.messages, ErrMsg(convId, error, t)),
             !.isLoading = FALSE,
             !.streamingContent = <<>>,
             !.liveTrace = <<>>]

\* The body of `for (const line of lines)` for one line.
ApplyLine(st, convId, line, t) ==
  LET c == Dispatch(line)
      called == [st EXCEPT !.calls = Append(st.calls, c)]
  IN  CASE c.name = "onDone"         -> OnDone(called, convId)
        [] c.name = "onError"        -> OnError(called, convId, c.data.message, t)
        [] c.name = "onFullResponse" -> OnFullResponse(called, c.data.message)
        [] c.name = "onToken"        -> OnToken(called, c.data.message)
        [] c.name = "onTrace"        -> OnTrace(called, c.data)
        [] OTHER                     -> called

\* A loop whose try/catch encloses the whole `for`: the first line that is
\* no decodable data frame ends the pass over the chunk.
RECURSIVE ApplyLinesAbort(_, _, _, _)
ApplyLinesAbort(st, convId, lines, t) ==
  IF lines = <<>> THEN st
  ELSE IF Dispatch(Head(lines)) = NoCall THEN st
  ELSE ApplyLinesAbort(ApplyLine(st, convId, Head(lines), t), convId, Tail(lines), t)

RECURSIVE ApplyLines(_, _, _, _)
ApplyLines(st, convId, lines, t) ==
  IF lines = <<>> THEN st
  ELSE ApplyLines(ApplyLine(st, convId, Head(lines), t), convId, Tail(lines), t)

\* The lines a response stream may carry: one per payload, a comment line,
\* a data line of malformed JSON, and a data line after a stray newline.
Lines ==
  {<<"P", p>> : p \in Payloads} \cup {<<"X">>, <<"P", "X">>, <<"NL", "P", "tokA">>}

Chunks == SeqsUpTo(Lines, MaxChunkLines)

\* The lines the sessions of Spec draw their chunks from.
AppLines == {<<"P", p>> : p \in {"done", "error", "tokA", "trT"}}

AppChunks == {<<l>> : l \in AppLines}

\* Date.now(): the clock value of the previous reading, or a later one.
Clock == {t \in {now, now + 1} : t <= MaxClock}

\* ------------------------------------------------------------- actions
ConvIdSeq == <<"c1", "c2", "c3">>

NoLoads == [c \in ConvIds |-> 0]

NoSnap == [served |-> FALSE, convs |-> <<>>]

NewSession(convId, message, t) ==
  [convId |-> convId, message |-> message, pc |-> "fetch", fullResponse |-> <<>>,
   nread |-> 0, tempId |-> <<"temp", t>>, terminal |-> FALSE,
   lines |-> <<>>, calls |-> <<>>, body |-> "none"]

\* The trace entry uploadPDF shows while the upload runs.
UploadStep == [type |-> "undefined", message |-> "upload"]

\* The server holds n conversations when the App mounts, most recent
\* first; the k-th created has k stored messages.
SrvInit(n) ==
  /\ nextConv = n
  /\ srvConvs = [k \in 1..n |-> [id |-> ConvIdSeq[n + 1 - k], updated_at |-> n + 1 - k]]
  /\ srvMsgs = [c \in ConvIds |->
                  IF \E k \in 1..n : ConvIdSeq[k] = c
                  THEN CHOOSE k \in 1..n : ConvIdSeq[k] = c
                  ELSE 0]

\* The App before its first effect has run.
AppStart ==
  /\ conversations = <<>>
  /\ activeConvId = Null
  /\ messages = <<>>
  /\ isLoading = FALSE
  /\ streamingContent = <<>>
  /\ liveTrace = <<>>
  /\ mount = "list"
  /\ sessions = <<>>
  /\ creates = <<>>
  /\ uploads = <<>>
  /\ loads = NoLoads
  /\ listLoads = 0
  /\ now = 0
  /\ ops = 0
  /\ listSnap = NoSnap

AppInit == AppStart /\ \E n \in {0, 1} : SrvInit(n)

WireIdle ==
  /\ wStream = <<>>
  /\ wBuffer = <<>>
  /\ wPend = <<>>
  /\ wLines = <<>>
  /\ wOpen = FALSE
  /\ wCuts = {}

Init == AppInit /\ WireIdle /\ budget = MaxOps /\ frameCap = MaxFrames

\* ---- the mount effect
\* A mount effect that shows the list and selects nothing.
MountListOkNoSelect ==
  /\ mount = "list"
  /\ conversations' = srvConvs
  /\ mount' = "done"
  /\ UNCHANGED <<idle, activeConvId, messages, isLoading, streamingContent, liveTrace,
                 sessions, creates, uploads, loads, listLoads, now, srvConvs, srvMsgs,
                 nextConv, ops>>

MountListOk ==
  /\ mount = "list"
  /\ conversations' = srvConvs
  /\ IF Len(srvConvs) > 0
     THEN /\ activeConvId' = srvConvs[1].id
          /\ mount' = srvConvs[1].id
     ELSE /\ activeConvId' = activeConvId
          /\ mount' = "done"
  /\ UNCHANGED <<idle, messages, isLoading, streamingContent, liveTrace, sessions, creates,
                 uploads, loads, listLoads, now, srvConvs, srvMsgs, nextConv, ops>>

MountMsgsOk ==
  /\ mount \in ConvIds
  /\ messages' = SrvList(mount, srvMsgs[mount])
  /\ mount' = "done"
  /\ UNCHANGED <<idle, conversations, activeConvId, isLoading, streamingContent, liveTrace,
                 sessions, creates, uploads, loads, listLoads, now, srvConvs, srvMsgs,
                 nextConv, ops>>

MountFail ==
  /\ mount # "done"
  /\ mount' = "done"
  /\ UNCHANGED <<idle, conversations, activeConvId, messages, isLoading, streamingContent,
                 liveTrace, sessions, creates, uploads, loads, listLoads, now, srvConvs,
                 srvMsgs, nextConv, ops>>

\* ---- loadMessages and loadConversations
\* A loadMessages that also selects the conversation it has loaded.
LoadMessagesOkSelects(c) ==
  /\ loads[c] > 0
  /\ loads' = [loads EXCEPT ![c] = @ - 1]
  /\ messages' = SrvList(c, srvMsgs[c])
  /\ activeConvId' = c
  /\ UNCHANGED <<idle, conversations, isLoading, streamingContent, liveTrace,
                 mount, sessions, creates, uploads, listLoads, now, srvConvs, srvMsgs,
                 nextConv, ops>>

LoadMessagesOk(c) ==
  /\ loads[c] > 0
  /\ loads' = [loads EXCEPT ![c] = @ - 1]
  /\ messages' = SrvList(c, srvMsgs[c])
  /\ UNCHANGED <<idle, conversations, activeConvId, isLoading, streamingContent, liveTrace,
                 mount, sessions, creates, uploads, listLoads, now, srvConvs, srvMsgs,
                 nextConv, ops>>

\* A loadMessages whose catch puts the failure into the message list.
LoadMessagesFailSurfaced(c) ==
  /\ loads[c] > 0
  /\ loads' = [loads EXCEPT ![c] = @ - 1]
  /\ messages' = Append(messages, ErrMsg(c, "load", now))
  /\ UNCHANGED <<idle, conversations, activeConvId, isLoading, streamingContent, liveTrace,
                 mount, sessions, creates, uploads, listLoads, now, srvConvs, srvMsgs,
                 nextConv, ops>>

LoadMessagesFail(c) ==
  /\ loads[c] > 0
  /\ loads' = [loads EXCEPT ![c] = @ - 1]
  /\ UNCHANGED <<idle, conversations, activeConvId, messages, isLoading, streamingContent,
                 liveTrace, mount, sessions, creates, uploads, listLoads, now, srvConvs,
                 srvMsgs, nextConv, ops>>

LoadConversationsOk ==
  /\ listLoads > 0
  /\ listLoads' = listLoads - 1
  /\ conversations' = srvConvs
  /\ UNCHANGED <<idle, activeConvId, messages, isLoading, streamingContent, liveTrace, mount,
                 sessions, creates, uploads, loads, now, srvConvs, srvMsgs, nextConv,
                 ops>>

LoadConversationsFail ==
  /\ listLoads > 0
  /\ listLoads' = listLoads - 1
  /\ UNCHANGED <<idle, conversations, activeConvId, messages, isLoading, streamingContent,
                 liveTrace, mount, sessions, creates, uploads, loads, now, srvConvs,
                 srvMsgs, nextConv, ops>>

\* The server answers a listConversations request: the response holds the
\* list as it is now, and is on its way.
ListConversationsServed ==
  /\ listLoads > 0
  /\ listSnap = NoSnap
  /\ listSnap' = [served |-> TRUE, convs |-> srvConvs]
  /\ UNCHANGED <<appVars, caps, wireVars>>

\* The response arrives: setConversations(convs) with the list it holds.
LoadConversationsLate ==
  /\ listLoads > 0
  /\ listSnap.served
  /\ listLoads' = listLoads - 1
  /\ conversations' = listSnap.convs
  /\ listSnap' = NoSnap
  /\ UNCHANGED <<caps, wireVars, activeConvId, messages, isLoading, streamingContent,
                 liveTrace, mount, sessions, creates, uploads, loads, now, srvConvs,
                 srvMsgs, nextConv, ops>>

\* ---- selectConversation
SelectConversation(id) ==
  /\ ops < budget
  /\ mount = "done"
  /\ id \in ConvIdsOf(conversations)
  /\ TotalLoads(loads) < MaxLoads
  /\ activeConvId' = id
  /\ streamingContent' = <<>>
  /\ liveTrace' = <<>>
  /\ loads' = [loads EXCEPT ![id] = @ + 1]
  /\ ops' = ops + 1
  /\ UNCHANGED <<idle, conversations, messages, isLoading, mount, sessions, creates, uploads,
                 listLoads, now, srvConvs, srvMsgs, nextConv>>

\* ---- sendMessage
\* loadingSeen is the isLoading of the render whose closure runs.
SendAccepted(convId, loadingSeen) == convId # Null /\ ~loadingSeen

SendMessage(message, t) ==
  /\ ops < budget
  /\ mount = "done"
  /\ activeConvId # Null          \* InputBar gets sendMessage only then
  /\ ops' = ops + 1
  /\ IF SendAccepted(activeConvRef, isLoading)
     THEN /\ messages' = Append(messages, UserMsg(activeConvRef, message, t))
          /\ isLoading' = TRUE
          /\ streamingContent' = <<>>
          /\ liveTrace' = <<>>
          /\ sessions' = Append(sessions, NewSession(activeConvRef, message, t))
          /\ now' = t
     ELSE UNCHANGED <<messages, isLoading, streamingContent, liveTrace, sessions, now>>
  /\ UNCHANGED <<idle, conversations, activeConvId, mount, creates, uploads, loads, listLoads,
                 srvConvs, srvMsgs, nextConv>>

\* ---- sendChatMessage, one call per session
FetchReject(i) ==
  /\ i \in 1..Len(sessions)
  /\ sessions[i].pc = "fetch"
  /\ isLoading' = FALSE
  /\ sessions' = RemoveAt(sessions, i)
  /\ UNCHANGED <<idle, conversations, activeConvId, messages, streamingContent, liveTrace,
                 mount, creates, uploads, loads, listLoads, now, srvConvs, srvMsgs,
                 nextConv, ops>>

\* The bodies a response of non-success status may carry: JSON with a
\* detail, JSON without one, and text that is no JSON.
ErrorBodies == {"detail", "nodetail", "notjson"}

StatusText == "statusText"

\* res.json() of an error body; JThrow when it rejects.
BodyJSON(body) ==
  CASE body = "detail"   -> [detail |-> "detail"]
    [] body = "nodetail" -> [detail |-> "undefined"]
    [] OTHER             -> JThrow

Truthy(x) == x \notin {"undefined", ""}

\* An error text that is always the status text.
ErrorTextStatusOnly(body) == StatusText

\* err.detail || res.statusText, err being res.json() or, when that
\* rejects, { detail: res.statusText }.
ErrorText(body) ==
  LET err == IF BodyJSON(body) = JThrow THEN [detail |-> StatusText] ELSE BodyJSON(body)
  IN  IF Truthy(err.detail) THEN err.detail ELSE StatusText

\* fetch resolves with !res.ok: sendChatMessage awaits res.json().
FetchNotOk(i, body) ==
  /\ i \in 1..Len(sessions)
  /\ sessions[i].pc = "fetch"
  /\ sessions' = [sessions EXCEPT ![i].pc = "json", ![i].body = body]
  /\ UNCHANGED <<idle, conversations, activeConvId, messages, isLoading, streamingContent,
                 liveTrace, mount, creates, uploads, loads, listLoads, now, srvConvs,
                 srvMsgs, nextConv, ops>>

\* res.json() has settled: onError and return.
FetchError(i, t) ==
  /\ i \in 1..Len(sessions)
  /\ sessions[i].pc = "json"
  /\ messages' = Append(messages,
                        ErrMsg(sessions[i].convId, ErrorText(sessions[i].body), t))
  /\ now' = t
  /\ isLoading' = FALSE
  /\ streamingContent' = <<>>
  /\ liveTrace' = <<>>
  /\ sessions' = RemoveAt(sessions, i)
  /\ UNCHANGED <<idle, conversations, activeConvId, mount, creates, uploads, loads, listLoads,
                 srvConvs, srvMsgs, nextConv, ops>>

\* fetch resolves ok with no body to read: onError and return.
FetchNoBody(i, t) ==
  /\ i \in 1..Len(sessions)
  /\ sessions[i].pc = "fetch"
  /\ messages' = Append(messages, ErrMsg(sessions[i].convId, "No response body", t))
  /\ now' = t
  /\ isLoading' = FALSE
  /\ streamingContent' = <<>>
  /\ liveTrace' = <<>>
  /\ sessions' = RemoveAt(sessions, i)
  /\ UNCHANGED <<idle, conversations, activeConvId, mount, creates, uploads, loads, listLoads,
                 srvConvs, srvMsgs, nextConv, ops>>

\* The server answers 200: it has stored the user's message.
FetchOk(i) ==
  /\ i \in 1..Len(sessions)
  /\ sessions[i].pc = "fetch"
  /\ sessions' = [sessions EXCEPT ![i].pc = "read"]
  /\ srvMsgs' = SrvStore(sessions[i].convId)
  /\ UNCHANGED <<idle, conversations, activeConvId, messages, isLoading, streamingContent,
                 liveTrace, mount, creates, uploads, loads, listLoads, now, srvConvs,
                 nextConv, ops>>

CallbackState(i) ==
  [messages |-> messages, isLoading |-> isLoading,
   streamingContent |-> streamingContent, liveTrace |-> liveTrace,
   loads |-> loads, listLoads |-> listLoads,
   fullResponse |-> sessions[i].fullResponse, calls |-> <<>>]

CallNames(calls) == {calls[k].name : k \in 1..Len(calls)}

IsTerminalCall(name) == name \in {"onDone", "onError"}

\* One pass of the read loop: a chunk that closes the given lines.
ReadChunk(i, lines, t) ==
  /\ i \in 1..Len(sessions)
  /\ sessions[i].pc = "read"
  /\ sessions[i].nread + Len(lines) <= frameCap
  /\ LET st == ApplyLines(CallbackState(i), sessions[i].convId, lines, t)
     IN  /\ now' = IF "onError" \in CallNames(st.calls) THEN t ELSE now
         /\ TotalLoads(st.loads) <= MaxLoads
         /\ st.listLoads <= MaxLoads
         \* the server has stored the answer when it sends done
         /\ srvMsgs' = IF "onDone" \in CallNames(st.calls)
                       THEN SrvStore(sessions[i].convId)
                       ELSE srvMsgs
         /\ messages' = st.messages
         /\ isLoading' = st.isLoading
         /\ streamingContent' = st.streamingContent
         /\ liveTrace' = st.liveTrace
         /\ loads' = st.loads
         /\ listLoads' = st.listLoads
         /\ sessions' =
              [sessions EXCEPT
                 ![i].fullResponse = st.fullResponse,
                 ![i].nread = @ + Len(lines),
                 ![i].lines = @ \o lines,
                 ![i].calls = @ \o st.calls,
                 ![i].terminal = @ \/ \E n \in CallNames(st.calls) : IsTerminalCall(n)]
  /\ UNCHANGED <<idle, conversations, activeConvId, mount, creates, uploads, srvConvs,
                 nextConv, ops>>

\* reader.read() reports the end of the stream: the loop breaks and
\* sendChatMessage returns.
ReadEnd(i) ==
  /\ i \in 1..Len(sessions)
  /\ sessions[i].pc = "read"
  /\ sessions' = RemoveAt(sessions, i)
  /\ UNCHANGED <<idle, conversations, activeConvId, messages, isLoading, streamingContent,
                 liveTrace, mount, creates, uploads, loads, listLoads, now, srvConvs,
                 srvMsgs, nextConv, ops>>

\* reader.read() rejects: sendMessage's catch.
ReadThrow(i) ==
  /\ i \in 1..Len(sessions)
  /\ sessions[i].pc = "read"
  /\ isLoading' = FALSE
  /\ sessions' = RemoveAt(sessions, i)
  /\ UNCHANGED <<idle, conversations, activeConvId, messages, streamingContent, liveTrace,
                 mount, creates, uploads, loads, listLoads, now, srvConvs, srvMsgs,
                 nextConv, ops>>

\* ---- newConversation, handleSendNoConv, handleUploadNoConv
\* A gesture starts createConversation; what follows the await runs in
\* the closure of the render the gesture was made in.
NewConversationClick ==
  /\ ops < budget
  /\ mount = "done"
  /\ creates' = Append(creates, [kind |-> "new", loading |-> FALSE, message |-> "q"])
  /\ ops' = ops + 1
  /\ UNCHANGED <<idle, conversations, activeConvId, messages, isLoading, streamingContent,
                 liveTrace, mount, sessions, uploads, loads, listLoads, now, srvConvs,
                 srvMsgs, nextConv>>

HandleSendNoConv(message) ==
  /\ ops < budget
  /\ mount = "done"
  /\ activeConvId = Null          \* InputBar gets handleSendNoConv only then
  /\ creates' = Append(creates,
                       [kind |-> "send", loading |-> isLoading, message |-> message])
  /\ ops' = ops + 1
  /\ UNCHANGED <<idle, conversations, activeConvId, messages, isLoading, streamingContent,
                 liveTrace, mount, sessions, uploads, loads, listLoads, now, srvConvs,
                 srvMsgs, nextConv>>

HandleUploadNoConv ==
  /\ ops < budget
  /\ mount = "done"
  /\ activeConvId = Null          \* InputBar gets handleUploadNoConv only then
  /\ creates' = Append(creates, [kind |-> "upload", loading |-> FALSE, message |-> "q"])
  /\ ops' = ops + 1
  /\ UNCHANGED <<idle, conversations, activeConvId, messages, isLoading, streamingContent,
                 liveTrace, mount, sessions, uploads, loads, listLoads, now, srvConvs,
                 srvMsgs, nextConv>>

NewUpload(convId) == [convId |-> convId, pc |-> "upload"]

MaxOf(S) == CHOOSE m \in S : \A x \in S : x <= m

Stamps(convs) == {convs[i].updated_at : i \in 1..Len(convs)}

\* The time of an update in seconds, at the server or as Date.now() / 1000:
\* later than every updated_at issued so far.
Tick == 1 + MaxOf({nextConv} \cup Stamps(conversations) \cup Stamps(srvConvs))

CreateOk(k, t) ==
  /\ k \in 1..Len(creates)
  /\ nextConv < Len(ConvIdSeq)
  /\ LET conv == [id |-> ConvIdSeq[nextConv + 1], updated_at |-> Tick]
         cr == creates[k]
         sends == cr.kind = "send" /\ SendAccepted(conv.id, cr.loading)
     IN  /\ srvConvs' = <<conv>> \o srvConvs
         /\ nextConv' = nextConv + 1
         /\ conversations' = <<conv>> \o conversations
         /\ activeConvId' = conv.id
         /\ streamingContent' = <<>>
         /\ messages' = IF sends THEN <<UserMsg(conv.id, cr.message, t)>> ELSE <<>>
         /\ now' = IF sends THEN t ELSE now
         /\ liveTrace' = IF cr.kind = "upload" THEN <<UploadStep>> ELSE <<>>
         /\ isLoading' = IF sends \/ cr.kind = "upload" THEN TRUE ELSE isLoading
         /\ sessions' = IF sends
                        THEN Append(sessions, NewSession(conv.id, cr.message, t))
                        ELSE sessions
         /\ uploads' = IF cr.kind = "upload"
                       THEN Append(uploads, NewUpload(conv.id))
                       ELSE uploads
  /\ creates' = RemoveAt(creates, k)
  /\ UNCHANGED <<idle, mount, loads, listLoads, srvMsgs, ops>>

CreateFail(k) ==
  /\ k \in 1..Len(creates)
  /\ creates' = RemoveAt(creates, k)
  /\ UNCHANGED <<idle, conversations, activeConvId, messages, isLoading, streamingContent,
                 liveTrace, mount, sessions, uploads, loads, listLoads, now, srvConvs,
                 srvMsgs, nextConv, ops>>

\* ---- renameConversation
\* prev.map(c => c.id === id ? { ...c, title, updated_at: t } : c); the
\* model's conversations carry no title.
Renamed(convs, id, t) ==
  [k \in 1..Len(convs) |->
     IF convs[k].id = id THEN [convs[k] EXCEPT !.updated_at = t] ELSE convs[k]]

\* The server's list after the rename: most recent first, whether or not
\* the server counts a rename as an update.
SrvRenamed(id, t, bump) ==
  IF bump
  THEN <<[id |-> id, updated_at |-> t]>> \o SelectSeq(srvConvs, LAMBDA c : c.id # id)
  ELSE srvConvs

RenameConversationOk(id, bump) ==
  /\ ops < budget
  /\ mount = "done"
  /\ id \in ConvIdsOf(conversations)
  /\ id \in ConvIdsOf(srvConvs)
  /\ conversations' = Renamed(conversations, id, Tick)
  /\ srvConvs' = SrvRenamed(id, Tick, bump)
  /\ ops' = ops + 1
  /\ UNCHANGED <<idle, activeConvId, messages, isLoading, streamingContent, liveTrace,
                 mount, sessions, creates, uploads, loads, listLoads, now, srvMsgs,
                 nextConv>>

RenameConversationFail(id) ==
  /\ ops < budget
  /\ mount = "done"
  /\ id \in ConvIdsOf(conversations)
  /\ ops' = ops + 1
  /\ UNCHANGED <<idle, conversations, activeConvId, messages, isLoading, streamingContent,
                 liveTrace, mount, sessions, creates, uploads, loads, listLoads, now,
                 srvConvs, srvMsgs, nextConv>>

\* ---- deleteConversation
RECURSIVE Without(_, _)
Without(convs, id) ==
  IF convs = <<>> THEN <<>>
  ELSE IF Head(convs).id = id THEN Without(Tail(convs), id)
  ELSE <<Head(convs)>> \o Without(Tail(convs), id)

DeleteConversationOk(id) ==
  /\ ops < budget
  /\ mount = "done"
  /\ id \in ConvIdsOf(conversations)
  /\ LET remaining == Without(conversations, id)
     IN  /\ conversations' = remaining
         /\ IF activeConvRef = id
            THEN IF Len(remaining) > 0
                 THEN /\ TotalLoads(loads) < MaxLoads
                      /\ activeConvId' = remaining[1].id
                      /\ loads' = [loads EXCEPT ![remaining[1].id] = @ + 1]
                      /\ messages' = messages
                 ELSE /\ activeConvId' = Null
                      /\ messages' = <<>>
                      /\ loads' = loads
            ELSE UNCHANGED <<activeConvId, messages, loads>>
  /\ srvConvs' = Without(srvConvs, id)
  /\ srvMsgs' = [srvMsgs EXCEPT ![id] = 0]
  /\ ops' = ops + 1
  /\ UNCHANGED <<idle, isLoading, streamingContent, liveTrace, mount, sessions, creates,
                 uploads, listLoads, now, nextConv>>

DeleteConversationFail(id) ==
  /\ ops < budget
  /\ mount = "done"
  /\ id \in ConvIdsOf(conversations)
  /\ ops' = ops + 1
  /\ UNCHANGED <<idle, conversations, activeConvId, messages, isLoading, streamingContent,
                 liveTrace, mount, sessions, creates, uploads, loads, listLoads, now,
                 srvConvs, srvMsgs, nextConv>>

\* ---- uploadPDF
UploadMsg(convId, t) ==
  [id |-> <<"err", t>>, conversation_id |-> convId, role |-> "assistant",
   content |-> <<"Upload failed: ", "err">>]

UploadPDF ==
  /\ ops < budget
  /\ mount = "done"
  /\ activeConvId # Null          \* InputBar gets uploadPDF only then,
  /\ ~isLoading                   \* and is disabled while isLoading
  /\ isLoading' = TRUE
  /\ liveTrace' = <<UploadStep>>
  /\ uploads' = Append(uploads, NewUpload(activeConvRef))
  /\ ops' = ops + 1
  /\ UNCHANGED <<idle, conversations, activeConvId, messages, streamingContent, mount,
                 sessions, creates, loads, listLoads, now, srvConvs, srvMsgs, nextConv>>

\* api.uploadPDF resolves: show result.trace, then await loadMessages.
\* The server has stored the upload confirmation by then.
UploadOk(u, trace) ==
  /\ u \in 1..Len(uploads)
  /\ uploads[u].pc = "upload"
  /\ liveTrace' = trace
  /\ uploads' = [uploads EXCEPT ![u].pc = "reload"]
  /\ srvMsgs' = SrvStore(uploads[u].convId)
  /\ UNCHANGED <<idle, conversations, activeConvId, messages, isLoading, streamingContent,
                 mount, sessions, creates, loads, listLoads, now, srvConvs, nextConv,
                 ops>>

\* The awaited loadMessages settles (it never throws), then `finally`.
UploadReloaded(u, ok) ==
  /\ u \in 1..Len(uploads)
  /\ uploads[u].pc = "reload"
  /\ messages' = IF ok THEN SrvList(uploads[u].convId, srvMsgs[uploads[u].convId])
                 ELSE messages
  /\ isLoading' = FALSE
  /\ liveTrace' = <<>>
  /\ uploads' = RemoveAt(uploads, u)
  /\ UNCHANGED <<idle, conversations, activeConvId, streamingContent, mount, sessions,
                 creates, loads, listLoads, now, srvConvs, srvMsgs, nextConv, ops>>

\* api.uploadPDF rejects: the catch, then `finally`.
UploadFail(u, t) ==
  /\ u \in 1..Len(uploads)
  /\ uploads[u].pc = "upload"
  /\ messages' = Append(messages, UploadMsg(uploads[u].convId, t))
  /\ now' = t
  /\ isLoading' = FALSE
  /\ liveTrace' = <<>>
  /\ uploads' = RemoveAt(uploads, u)
  /\ UNCHANGED <<idle, conversations, activeConvId, streamingContent, mount, sessions,
                 creates, loads, listLoads, srvConvs, srvMsgs, nextConv, ops>>

Next ==
  \/ MountListOk
  \/ MountMsgsOk
  \/ MountFail
  \/ \E c \in ConvIds : LoadMessagesOk(c)
  \/ \E c \in ConvIds : LoadMessagesFail(c)
  \/ LoadConversationsOk
  \/ LoadConversationsFail
  \/ \E id \in ConvIds : SelectConversation(id)
  \/ \E q \in Queries, t \in Clock : SendMessage(q, t)
  \/ \E i \in 1..Len(sessions) : FetchReject(i)
  \/ \E i \in 1..Len(sessions), b \in ErrorBodies : FetchNotOk(i, b)
  \/ \E i \in 1..Len(sessions), t \in Clock : FetchError(i, t)
  \/ \E i \in 1..Len(sessions), t \in Clock : FetchNoBody(i, t)
  \/ \E i \in 1..Len(sessions) : FetchOk(i)
  \/ \E i \in 1..Len(sessions), lines \in AppChunks, t \in Clock : ReadChunk(i, lines, t)
  \/ \E i \in 1..Len(sessions) : ReadEnd(i)
  \/ \E i \in 1..Len(sessions) : ReadThrow(i)
  \/ NewConversationClick
  \/ \E q \in Queries : HandleSendNoConv(q)
  \/ HandleUploadNoConv
  \/ \E k \in 1..Len(creates), t \in Clock : CreateOk(k, t)
  \/ \E k \in 1..Len(creates) : CreateFail(k)
  \/ \E id \in ConvIds : DeleteConversationOk(id)
  \/ \E id \in ConvIds : DeleteConversationFail(id)
  \/ UploadPDF
  \/ \E u \in 1..Len(uploads), tr \in {<<>>, <<UploadStep>>} : UploadOk(u, tr)
  \/ \E u \in 1..Len(uploads), ok \in BOOLEAN : UploadReloaded(u, ok)
  \/ \E u \in 1..Len(uploads), t \in Clock : UploadFail(u, t)

Spec == Init /\ [][Next]_vars

\* A session in the sending or the streaming phase: its request is out or
\* its stream is open, and it has seen no done and no error event.
IsActive(s) == ~s.terminal

ActiveSessions == {i \in 1..Len(sessions) : IsActive(sessions[i])}

\* Session i has read a chunk in this step.
HasRead(i) ==
  /\ Len(sessions') = Len(sessions)
  /\ sessions'[i].nread > sessions[i].nread

NewCalls(i) ==
  SubSeq(sessions'[i].calls, Len(sessions[i].calls) + 1, Len(sessions'[i].calls))

\* While a session is active no step starts a session, none starts the
\* createConversation of a submit, and the sendMessage that follows such a
\* createConversation leaves the message list and the conversation list
\* alone.
C3Step ==
  ActiveSessions # {} =>
    /\ Len(sessions') <= Len(sessions)
    /\ ~(Len(creates') > Len(creates) /\ Last(creates').kind = "send")
    /\ \A k \in 1..Len(creates) :
         (creates' = RemoveAt(creates, k) /\ creates[k].kind = "send")
           => (messages' = messages /\ conversations' = conversations)

\* C3: a submit made while a session is sending or streaming is a no-op
\* through sendMessage and through handleSendNoConv: the message list and
\* the conversation list are unchanged, no request is issued and no second
\* session starts.
C3_BusySubmitNoOp == [][C3Step]_vars

\* C4: at most one session per conversation is in the sending or the
\* streaming phase, whatever submits, uploads, selections, creations,
\* deletions and stream events have been interleaved.
C4_OneSessionPerConversation ==
  \A i, j \in ActiveSessions :
    i # j => sessions[i].convId # sessions[j].convId

\* The trace events a session has received, in arrival order.
IsTraceCall(c) == c.name = "onTrace"

TraceEvents(calls) ==
  LET tc == SelectSeq(calls, IsTraceCall)
  IN  [k \in 1..Len(tc) |-> tc[k].data]

\* C7: while a session streams, the live trace is the sequence of the trace
\* events the session has received so far, in arrival order, duplicates
\* kept.
C7_LiveTraceIsArrivals ==
  \A i \in ActiveSessions :
    sessions[i].pc = "read" => liveTrace = TraceEvents(sessions[i].calls)

\* A step that starts a session appends one optimistic message to the
\* list (the list newConversation has just emptied, when the submit came
\* through handleSendNoConv) and leaves the controller busy with empty
\* streaming text and empty live trace, the request not yet answered.
C8Step ==
  Len(sessions') > Len(sessions) =>
    LET s == Last(sessions')
    IN  /\ s.pc = "fetch" /\ s.nread = 0
        /\ messages' # <<>>
        /\ Front(messages') = IF activeConvId' = activeConvId THEN messages ELSE <<>>
        /\ Last(messages').role = "user"
        /\ Last(messages').content = <<s.message>>
        /\ Last(messages').conversation_id = s.convId
        /\ Last(messages').id = s.tempId
        /\ s.tempId[1] = "temp"
        /\ isLoading'
        /\ streamingContent' = <<>>
        /\ liveTrace' = <<>>

\* C8: an accepted submit appends exactly one optimistic message (role
\* user, the submitted text, the submission's conversation id, a temp id)
\* before the request is answered, and marks the controller busy with
\* empty streaming text and empty live trace.
C8_OptimisticAppend == [][C8Step]_vars

\* A submit on a conversation that already shows a stored message has been
\* accepted and its request is out.
C8_Witness ==
  \E i \in 1..Len(sessions) :
    /\ sessions[i].pc = "fetch"
    /\ Len(messages) >= 2
    /\ Last(messages).id = sessions[i].tempId
    /\ Last(messages).role = "user"
    /\ messages[1].id[1] = "srv"
    /\ isLoading
    /\ streamingContent = <<>>
    /\ liveTrace = <<>>

\* An active session reads an error event.
C9Step ==
  \A i \in 1..Len(sessions) :
    (/\ HasRead(i)
     /\ IsActive(sessions[i])
     /\ Last(NewCalls(i)).name = "onError")
      => /\ messages' # <<>>
         /\ Front(messages') = messages
         /\ Last(messages').role = "assistant"
         /\ Last(messages').content = <<"Error: ", Last(NewCalls(i)).data.message>>
         /\ liveTrace' = <<>>
         /\ streamingContent' = <<>>
         /\ ~isLoading'
         /\ \E k \in 1..Len(messages') :
              /\ messages'[k].id = sessions[i].tempId
              /\ messages'[k].role = "user"
              /\ messages'[k].conversation_id = sessions[i].convId

\* C9: on a mid-stream error event a synthetic assistant message with the
\* error text is appended, the live trace and the streaming text are
\* cleared, the busy flag is cleared, and the session's optimistic user
\* message is still in the message list.
C9_ErrorKeepsOptimistic == [][C9Step]_vars

\* A chunk read by a session adds a synthetic message only if the session
\* has added none before, and then only one.
C10Step ==
  \A i \in 1..Len(sessions) :
    HasRead(i)
      => Len(messages') - Len(messages)
           <= (IF "onError" \in CallNames(sessions[i].calls) THEN 0 ELSE 1)

\* C10: a session adds at most one synthetic assistant message to the
\* message list, whatever its response stream carries.
C10_OneSyntheticMessage == [][C10Step]_vars

\* The request of session i ends in this step.
Ends(i) == i \in 1..Len(sessions) /\ sessions' = RemoveAt(sessions, i)

\* The text the claim names for an error body: the detail when the body
\* has one, the status text otherwise.
DetailOrStatus(body) == IF body = "detail" THEN "detail" ELSE "statusText"

\* A session whose request was answered with a non-success status ends.
C11Step ==
  \A i \in 1..Len(sessions) :
    (sessions[i].pc = "json" /\ Ends(i))
      => /\ sessions[i].lines = <<>>
         /\ sessions[i].calls = <<>>
         /\ messages' # <<>>
         /\ Front(messages') = messages
         /\ Last(messages').role = "assistant"
         /\ Last(messages').conversation_id = sessions[i].convId
         /\ Last(messages').content = <<"Error: ", DetailOrStatus(sessions[i].body)>>
         /\ streamingContent' = <<>>
         /\ liveTrace' = <<>>
         /\ ~isLoading'

AppendsSynthetic(c) ==
  /\ messages' # <<>>
  /\ Front(messages') = messages
  /\ Last(messages').role = "assistant"
  /\ Last(messages').conversation_id = c

\* A session whose request has had no answer ends.
C12Step ==
  \A i \in 1..Len(sessions) :
    (sessions[i].pc = "fetch" /\ Ends(i))
      => /\ AppendsSynthetic(sessions[i].convId)
         /\ ~isLoading'
         /\ streamingContent' = <<>>
         /\ liveTrace' = <<>>

\* C12: when the chat request gets no response the failure is shown as a
\* synthetic assistant message, the busy flag is cleared and nothing of
\* the session is kept.
C12_NoResponseSurfaced == [][C12Step]_vars

\* A streaming session ends and the busy flag falls with it: the reader
\* has rejected (the end of the stream leaves the flag alone).
C13Step ==
  \A i \in 1..Len(sessions) :
    (/\ sessions[i].pc = "read"
     /\ Ends(i)
     /\ isLoading /\ ~isLoading')
      => /\ AppendsSynthetic(sessions[i].convId)
         /\ streamingContent' = <<>>
         /\ liveTrace' = <<>>

\* C13: a failure of the read after streaming has begun ends the session
\* with exactly one synthetic assistant message, the busy flag cleared
\* and the live trace and the streaming text cleared.
C13_ReadFailureSurfaced == [][C13Step]_vars

\* A session reads a done event: the accumulators are emptied and a
\* getMessages request for the session's own conversation id is started.
C14DoneStep ==
  \A i \in 1..Len(sessions) :
    (HasRead(i) /\ Last(NewCalls(i)).name = "onDone")
      => /\ streamingContent' = <<>>
         /\ liveTrace' = <<>>
         /\ loads'[sessions[i].convId] = loads[sessions[i].convId] + 1

\* A getMessages request for c settles: a change of the message list
\* makes it the server's list of c, in which every id is the server's.
C14ReloadStep ==
  \A c \in ConvIds :
    (loads'[c] = loads[c] - 1 /\ messages' # messages)
      => /\ messages' = SrvList(c, srvMsgs[c])
         /\ \A k \in 1..Len(messages') :
              /\ messages'[k].id[1] = "srv"
              /\ messages'[k].conversation_id = c
              /\ \A i \in 1..Len(sessions) :
                   messages'[k].content # sessions[i].fullResponse

\* C14: on done the session empties the live trace and the streaming
\* text and re-fetches the messages of the conversation id captured at
\* submission; when that reload succeeds the message list is the server's
\* list of that conversation: no temp id is left, and the assistant's text
\* is the server's, not the locally accumulated one.
C14_DoneReconciles == [][C14DoneStep /\ C14ReloadStep]_vars

\* A session has received a token and then done, its reload has
\* succeeded: the list is the server's, ending with the stored answer.
C14_Witness ==
  \E i \in 1..Len(sessions) :
    /\ CallNames(sessions[i].calls) = {"onToken", "onDone"}
    /\ sessions[i].fullResponse = <<"a">>
    /\ loads[sessions[i].convId] = 0
    /\ messages = SrvList(sessions[i].convId, srvMsgs[sessions[i].convId])
    /\ Len(messages) = 2
    /\ Last(messages).role = "assistant"
    /\ streamingContent = <<>>
    /\ liveTrace = <<>>

\* A getMessages request for c settles: unless the message list becomes
\* the server's list of c it is left exactly as it was, and the settling
\* touches neither the accumulators nor the busy flag nor the sessions.
C15Step ==
  \A c \in ConvIds :
    loads'[c] = loads[c] - 1
      => /\ (messages' # SrvList(c, srvMsgs[c]) => messages' = messages)
         /\ UNCHANGED <<isLoading, streamingContent, liveTrace, sessions>>

\* C15: a reload that fails after done adds no error message and throws
\* nothing: the message list stays as it was, optimistic message
\* included, the accumulators stay empty and the controller stays idle,
\* ready for the next submit.
C15_FailedReloadSilent == [][C15Step]_vars

\* After done the reload has failed: no request is pending, the list
\* still ends with the session's optimistic message, and the controller
\* is idle with empty accumulators and accepts a submit.
C15_Witness ==
  \E i \in 1..Len(sessions) :
    /\ "onDone" \in CallNames(sessions[i].calls)
    /\ loads = NoLoads
    /\ messages # <<>>
    /\ Last(messages).id = sessions[i].tempId
    /\ Last(messages).role = "user"
    /\ streamingContent = <<>>
    /\ liveTrace = <<>>
    /\ SendAccepted(activeConvRef, isLoading)

\* Sessions that stream: the response is open and no terminal event has
\* been read.
StreamingSessions == {i \in ActiveSessions : sessions[i].pc = "read"}

\* The selection moves (a conversation is selected or created) while a
\* session streams.
C16Step ==
  (activeConvId' # activeConvId /\ StreamingSessions # {})
    => /\ liveTrace' = liveTrace
       /\ streamingContent' = streamingContent
       /\ Len(sessions') >= Len(sessions)
       /\ \A i \in 1..Len(sessions) : sessions'[i] = sessions[i]

\* C16: selecting or creating a conversation while a session streams
\* neither cancels the session nor changes its trace log and its
\* accumulated text.
C16_SelectionKeepsAccumulators == [][C16Step]_vars

\* A step of a session (an event, a failure, the end of its stream) or
\* the settling of a reload.
IsSessionStep == Len(sessions') <= Len(sessions) /\ sessions' # sessions

IsReloadStep == \E c \in ConvIds : loads'[c] = loads[c] - 1

\* C17: no step of a session, terminal ones included, and no reload
\* changes the active selection.
C17_SelectionUnchanged == [][(IsSessionStep \/ IsReloadStep) => activeConvId' = activeConvId]_vars

\* A session of one conversation has read done and its reload has
\* settled while another conversation is selected.
C17_Witness ==
  \E i \in 1..Len(sessions) :
    /\ "onDone" \in CallNames(sessions[i].calls)
    /\ loads = NoLoads
    /\ activeConvId \in ConvIds \ {sessions[i].convId}

\* Conversation c has a session that has read done.
HasDoneSession(c) ==
  \E i \in 1..Len(sessions) :
    sessions[i].convId = c /\ "onDone" \in CallNames(sessions[i].calls)

\* While conversation D is selected, an event of a session of another
\* conversation, and the reload of another conversation whose session has
\* read done, leave the message list alone.
C18Step ==
  activeConvId # Null =>
    /\ \A i \in 1..Len(sessions) :
         (HasRead(i) /\ sessions[i].convId # activeConvId) => messages' = messages
    /\ \A c \in ConvIds \ {activeConvId} :
         (loads'[c] = loads[c] - 1 /\ HasDoneSession(c)) => messages' = messages

\* C18: messages are keyed by conversation id: a reload or a synthetic
\* error message of a session of conversation C never replaces or
\* extends the list shown for the selected conversation D.
C18_MessagesKeyedByConversation == [][C18Step]_vars

\* B is selected, has no session of its own, and a session of another
\* conversation is active.
OtherSessionOnly ==
  /\ activeConvId # Null
  /\ ActiveSessions # {}
  /\ \A i \in ActiveSessions : sessions[i].convId # activeConvId

\* An event of a session leaves alone what an active session of another
\* conversation shows: busy flag, live trace, streaming text.
C20Step ==
  \A i, j \in 1..Len(sessions) :
    (/\ HasRead(i)
     /\ IsActive(sessions[j])
     /\ sessions[j].convId # sessions[i].convId)
      => UNCHANGED <<isLoading, liveTrace, streamingContent>>

\* C20: sessions of different conversations are independent: a submit
\* for B is accepted while only a session of A is active, and no event of
\* one session changes the accumulators or the busy status of another.
C20_SessionsIndependent ==
  [](OtherSessionOnly => SendAccepted(activeConvRef, isLoading)) /\ [][C20Step]_vars

\* The step in which a session reads its terminal event leaves the busy
\* flag false; a step that starts a session leaves the streaming text and
\* the live trace empty; and while a later session is active, a frame read
\* by a session that is past its terminal event leaves both alone.
C21Step ==
  /\ \A i \in 1..Len(sessions) :
       (/\ HasRead(i)
        /\ IsActive(sessions[i])
        /\ NewCalls(i) # <<>>
        /\ IsTerminalCall(Last(NewCalls(i)).name))
         => ~isLoading'
  /\ Len(sessions') > Len(sessions)
       => (streamingContent' = <<>> /\ liveTrace' = <<>>)
  /\ \A i, j \in 1..Len(sessions) :
       (/\ HasRead(i)
        /\ sessions[i].terminal
        /\ IsActive(sessions[j]))
         => UNCHANGED <<streamingContent, liveTrace>>

\* C21: once a session has processed done or error the controller is
\* idle: the busy flag is false, the next submit is accepted and starts
\* with empty streaming text and empty live trace, and nothing of the
\* previous session's stream appears in them afterwards.
C21_FreshAfterTerminal == [][C21Step]_vars

\* A session that is past its terminal event reads a chunk.
C28Step ==
  \A i \in 1..Len(sessions) :
    (HasRead(i) /\ sessions[i].terminal)
      => UNCHANGED <<messages, isLoading, liveTrace, streamingContent>>

\* C28: once a session has processed done or error, no later frame of
\* the same response stream changes the message list, the busy flag, the
\* live trace or the streaming text.
C28_NothingAfterTerminal == [][C28Step]_vars

\* The message list holds the optimistic message of session s.
ShowsOptimistic(msgs, s) ==
  \E k \in 1..Len(msgs) : msgs[k].id = s.tempId /\ msgs[k].role = "user"

\* A getMessages request settles: the optimistic message of every active
\* session that was in the list is still in it.
C29Step ==
  IsReloadStep =>
    \A i \in ActiveSessions :
      ShowsOptimistic(messages, sessions[i]) => ShowsOptimistic(messages', sessions[i])

\* C29: the optimistic user message of a submit stays in the message
\* list until the session's own terminal event: a reload started by the
\* previous session's done or by selecting a conversation, settling after
\* the submit, does not remove it.
C29_ReloadKeepsOptimistic == [][C29Step]_vars

\* -------------------------------------------------------------- RaceSpec
\* Submits and uploads racing: one gesture more than Spec, among the
\* submit and upload entry points only, every request answered with
\* success or, for an upload, with failure.
MaxRaceFrames == 1   \* lines one response stream delivers in RaceSpec

RaceInit ==
  /\ AppInit
  /\ WireIdle
  /\ budget = MaxOps + 1
  /\ frameCap = MaxRaceFrames

RaceNext ==
  \/ MountListOk
  \/ MountMsgsOk
  \/ MountFail
  \/ \E c \in ConvIds : LoadMessagesOk(c)
  \/ LoadConversationsOk
  \/ \E q \in Queries, t \in Clock : SendMessage(q, t)
  \/ \E i \in 1..Len(sessions) : FetchOk(i)
  \/ \E i \in 1..Len(sessions), lines \in AppChunks, t \in Clock : ReadChunk(i, lines, t)
  \/ \E i \in 1..Len(sessions) : ReadEnd(i)
  \/ \E q \in Queries : HandleSendNoConv(q)
  \/ HandleUploadNoConv
  \/ \E k \in 1..Len(creates), t \in Clock : CreateOk(k, t)
  \/ UploadPDF
  \/ \E u \in 1..Len(uploads) : UploadOk(u, <<>>)
  \/ \E u \in 1..Len(uploads) : UploadReloaded(u, TRUE)
  \/ \E u \in 1..Len(uploads), t \in Clock : UploadFail(u, t)

RaceSpec == RaceInit /\ [][RaceNext]_vars

\* ------------------------------------------------------------ DeleteSpec
\* A conversation deleted under its session: one gesture more than Spec,
\* among creating, submitting and deleting only, every stream one line
\* long.
DeleteInit ==
  /\ AppInit
  /\ WireIdle
  /\ budget = MaxOps + 1
  /\ frameCap = MaxRaceFrames

DeleteNext ==
  \/ MountListOk
  \/ MountMsgsOk
  \/ MountFail
  \/ \E c \in ConvIds : LoadMessagesOk(c)
  \/ \E c \in ConvIds : LoadMessagesFail(c)
  \/ LoadConversationsOk
  \/ \E q \in Queries, t \in Clock : SendMessage(q, t)
  \/ \E i \in 1..Len(sessions) : FetchOk(i)
  \/ \E i \in 1..Len(sessions), lines \in AppChunks, t \in Clock : ReadChunk(i, lines, t)
  \/ \E i \in 1..Len(sessions) : ReadEnd(i)
  \/ NewConversationClick
  \/ \E k \in 1..Len(creates), t \in Clock : CreateOk(k, t)
  \/ \E id \in ConvIds : DeleteConversationOk(id)

DeleteSpec == DeleteInit /\ [][DeleteNext]_vars

\* The conversations the server has created and deleted again.
DeletedIds == {ConvIdSeq[k] : k \in 1..nextConv} \ ConvIdsOf(srvConvs)

\* A delete leaves the sessions alone; the done of a session whose
\* conversation is deleted, and the settling of the reload of a deleted
\* conversation whose session has read done while another conversation is
\* selected, leave the message list and the conversation list alone; no
\* step brings a deleted conversation back into the list.
C19Step ==
  /\ ConvIdsOf(srvConvs') # ConvIdsOf(srvConvs) /\ nextConv' = nextConv
       => sessions' = sessions
  /\ \A i \in 1..Len(sessions) :
       (/\ HasRead(i)
        /\ sessions[i].convId \in DeletedIds
        /\ Last(NewCalls(i)).name = "onDone")
         => (messages' = messages /\ conversations' = conversations)
  /\ \A c \in DeletedIds :
       /\ (/\ loads'[c] = loads[c] - 1
           /\ HasDoneSession(c)
           /\ activeConvId \in ConvIdsOf(conversations))
            => (messages' = messages /\ conversations' = conversations)
       /\ c \notin ConvIdsOf(conversations) => c \notin ConvIdsOf(conversations')

\* C19: deleting the conversation that owns the streaming session does
\* not abort the session, and the reconciliation that follows its done
\* is a no-op: the deleted conversation does not come back to the
\* conversation list and the messages of the conversation selected after
\* the delete are not changed.
C19_DeletedReloadNoOp == [][C19Step]_vars

\* ------------------------------------------------------------ ListSpec
\* The conversation list under every operation that writes it: one
\* gesture more than Spec, among creating, renaming, deleting and
\* submitting, every stream one line long.
ListInit ==
  /\ AppInit
  /\ WireIdle
  /\ budget = MaxOps + 1
  /\ frameCap = MaxRaceFrames

ListNext ==
  \/ MountListOk
  \/ MountMsgsOk
  \/ MountFail
  \/ \E c \in ConvIds : LoadMessagesOk(c)
  \/ ListConversationsServed
  \/ LoadConversationsLate
  \/ \E q \in Queries, t \in Clock : SendMessage(q, t)
  \/ \E i \in 1..Len(sessions) : FetchOk(i)
  \/ \E i \in 1..Len(sessions), lines \in AppChunks, t \in Clock : ReadChunk(i, lines, t)
  \/ NewConversationClick
  \/ \E k \in 1..Len(creates), t \in Clock : CreateOk(k, t)
  \/ \E id \in ConvIds, bump \in BOOLEAN : RenameConversationOk(id, bump)
  \/ \E id \in ConvIds : RenameConversationFail(id)
  \/ \E id \in ConvIds : DeleteConversationOk(id)

ListSpec == ListInit /\ [][ListNext]_vars

Sorted(convs) ==
  \A k \in 1..Len(convs) - 1 : convs[k].updated_at >= convs[k + 1].updated_at

\* The server returns sorted lists.
SrvSorted == Sorted(srvConvs)

\* C23: the conversation list is sorted by updated_at descending in every
\* reachable state, after any sequence of load, create, rename, delete
\* and refresh after done.
C23_ListSorted == Sorted(conversations)

\* A successful delete of conversation id: a gesture that takes id out of
\* the list.
Deletes(id) ==
  /\ ops' = ops + 1
  /\ id \in ConvIdsOf(conversations)
  /\ id \notin ConvIdsOf(conversations')

C25Step ==
  \A id \in ConvIds :
    Deletes(id) =>
      IF activeConvId # id THEN activeConvId' = activeConvId
      ELSE IF conversations' # <<>>
           THEN /\ activeConvId' = conversations'[1].id
                /\ loads'[conversations'[1].id] = loads[conversations'[1].id] + 1
           ELSE /\ activeConvId' = Null
                /\ messages' = <<>>

SelectionInList == activeConvId = Null \/ activeConvId \in ConvIdsOf(conversations)

\* C25: a successful delete takes the id out of the conversation list;
\* if it was the selection, the first remaining conversation is selected
\* and its messages are requested, or nothing is selected and the message
\* list is empty when none remains; otherwise the selection is unchanged.
\* Hence the selection is always none or an id of the conversation list.
C25_DeleteMovesSelection == []SelectionInList /\ [][C25Step]_vars

\* ----------------------------------------------------------- MountSpec
\* The initial load over a server that holds up to MaxInitConvs
\* conversations, and the gestures of Spec after it, every stream one line
\* long.
MaxInitConvs == 2

MountInit ==
  /\ AppStart
  /\ \E n \in 0..MaxInitConvs : n <= Len(ConvIdSeq) /\ SrvInit(n)
  /\ WireIdle
  /\ budget = MaxOps
  /\ frameCap = MaxRaceFrames

MountNext ==
  \/ MountListOk
  \/ MountMsgsOk
  \/ MountFail
  \/ \E c \in ConvIds : LoadMessagesOk(c)
  \/ \E c \in ConvIds : LoadMessagesFail(c)
  \/ LoadConversationsOk
  \/ \E id \in ConvIds : SelectConversation(id)
  \/ \E q \in Queries, t \in Clock : SendMessage(q, t)
  \/ \E i \in 1..Len(sessions) : FetchOk(i)
  \/ \E i \in 1..Len(sessions), lines \in AppChunks, t \in Clock : ReadChunk(i, lines, t)
  \/ \E i \in 1..Len(sessions) : ReadEnd(i)
  \/ \E q \in Queries : HandleSendNoConv(q)
  \/ \E k \in 1..Len(creates), t \in Clock : CreateOk(k, t)

MountSpec == MountInit /\ [][MountNext]_vars

\* The list request of the mount effect settles: a list that has arrived
\* non-empty is the server's, its first entry (the most recent) is selected
\* and that conversation's messages are requested; otherwise nothing is
\* selected and the message list is empty.  The message request settles:
\* the list is the selected conversation's, or still empty when the request
\* has failed.
C26Step ==
  /\ (mount = "list" /\ mount' # "list")
       => IF conversations' # <<>>
          THEN /\ conversations' = srvConvs
               /\ activeConvId' = conversations'[1].id
               /\ conversations'[1].updated_at = MaxOf(Stamps(conversations'))
               /\ mount' = activeConvId'
          ELSE /\ activeConvId' = Null
               /\ messages' = <<>>
               /\ mount' = "done"
  /\ (mount \in ConvIds /\ mount' = "done")
       => /\ activeConvId' = mount
          /\ messages' \in {SrvList(mount, srvMsgs[mount]), <<>>}

WireBytes == {"NL", "P", "X", "L", "K", "done"}

WireChunks == SeqsUpTo(WireBytes, MaxChunk)

CutsOf(buf, pend, chunk) ==
  LET d == Decode(pend, chunk)
      f == Feed(buf, pend, chunk)
  IN  (IF buf # <<>> /\ f.lines # <<>> THEN {"frame"} ELSE {})
      \cup (IF buf # <<>> /\ Last(buf) = "NL" /\ d.out # <<>> /\ Head(d.out) = "NL"
            THEN {"delim"} ELSE {})
      \cup (IF pend # <<>> /\ chunk # <<>> /\ Head(chunk) = "K" THEN {"char"} ELSE {})

WireInit ==
  /\ AppInit
  /\ budget = 0
  /\ frameCap = 0
  /\ wStream = <<>>
  /\ wBuffer = <<>>
  /\ wPend = <<>>
  /\ wLines = <<>>
  /\ wOpen = TRUE
  /\ wCuts = {}

\* reader.read() returns a chunk.
WireRead(chunk) ==
  /\ wOpen
  /\ Len(wStream) + Len(chunk) <= MaxStream
  /\ LET f == Feed(wBuffer, wPend, chunk)
     IN  /\ wBuffer' = f.buffer
         /\ wPend' = f.pend
         /\ wLines' = wLines \o f.lines
  /\ wStream' = wStream \o chunk
  /\ wCuts' = wCuts \cup CutsOf(wBuffer, wPend, chunk)
  /\ wOpen' = wOpen
  /\ UNCHANGED <<appVars, caps, listSnap>>

\* An end of stream that hands the unfinished tail on as a last line.
WireEndFlushes ==
  /\ wOpen
  /\ wOpen' = FALSE
  /\ wLines' = Append(wLines, wBuffer)
  /\ wBuffer' = <<>>
  /\ UNCHANGED <<wStream, wPend, wCuts, appVars, caps, listSnap>>

\* reader.read() reports the end of the stream.
WireEnd ==
  /\ wOpen
  /\ wOpen' = FALSE
  /\ UNCHANGED <<wStream, wBuffer, wPend, wLines, wCuts, appVars, caps, listSnap>>

WireNext ==
  \/ \E chunk \in WireChunks : WireRead(chunk)
  \/ WireEnd

WireSpec == WireInit /\ [][WireNext]_vars

\* The lines one read of the whole stream hands on.
WholeStreamLines(stream) == Feed(<<>>, <<>>, stream).lines

\* C1: however the byte stream is cut into chunks, the lines handed to the
\* dispatch are those of the unsplit stream: every blank-line-terminated
\* frame exactly once, in order.
C1_ChunkIndependent == wLines = WholeStreamLines(wStream)

\* A data frame has been handed on from a stream that chunk boundaries cut
\* inside a frame and inside a delimiter.
C1_Witness ==
  /\ {"frame", "delim"} \subseteq wCuts
  /\ <<"P", "done">> \in Range(wLines)

\* C22: when the byte stream ends, what is left in the buffer without a
\* closing blank line is discarded: the end of the stream hands no line to
\* the dispatch, so the tail reaches no callback, even when it is a
\* well-formed data line such as a done event.
C22_TailDiscarded == [][~wOpen' => wLines' = wLines]_vars

\* The stream has ended with a complete data line of a done event in the
\* buffer, one frame was handed on before it, and no done was.
C22_Witness ==
  /\ ~wOpen
  /\ Dispatch(wBuffer).name = "onDone"
  /\ wLines # <<>>
  /\ \A k \in 1..Len(wLines) : Dispatch(wLines[k]).name # "onDone"

\* ---------------------------------------------------------- StreamSpec
\* One session and nothing else: the mount effect, one submit, and the
\* response stream, read in chunks of any of the Lines.  The session keeps
\* the lines it has read and what the dispatch made of each.
MaxStreamFrames == 3

StreamInit ==
  /\ AppInit
  /\ WireIdle
  /\ budget = 1
  /\ frameCap = MaxStreamFrames

StreamNext ==
  \/ MountListOk
  \/ MountMsgsOk
  \/ MountFail
  \/ \E q \in Queries, t \in Clock : SendMessage(q, t)
  \/ \E q \in Queries : HandleSendNoConv(q)
  \/ \E t \in Clock : CreateOk(1, t)
  \/ FetchOk(1)
  \/ \E lines \in Chunks, t \in Clock : ReadChunk(1, lines, t)
  \/ ReadEnd(1)

StreamSpec == StreamInit /\ [][StreamNext]_vars

\* C24: message ids are unique within the message list in every
\* reachable state, the temp ids of optimistic messages and the err ids
\* of synthetic messages made at the same clock value included.
C24_MessageIdsUnique ==
  \A j, k \in 1..Len(messages) : j # k => messages[j].id # messages[k].id

\* ---- what the chat area shows
\* ChatArea's render: the welcome screen, or the message bubbles followed
\* by the live block (trace and, under it, the streaming text or the
\* typing indicator) or by the typing indicator alone.
ChatArea(msgs, content, trace, loading) ==
  IF msgs = <<>> /\ ~loading
  THEN [welcome |-> TRUE, bubbles |-> <<>>, trace |-> <<>>, text |-> <<>>,
        typing |-> FALSE]
  ELSE LET live == loading /\ Len(trace) > 0
       IN  [welcome |-> FALSE,
            bubbles |-> msgs,
            trace |-> IF live THEN trace ELSE <<>>,
            text |-> IF live /\ content # <<>> THEN content ELSE <<>>,
            typing |-> \/ live /\ content = <<>>
                       \/ loading /\ Len(trace) = 0 /\ content = <<>>]

\* App's render of the chat area: the state of the App when a
\* conversation is selected, an empty idle one otherwise.
AppChatArea ==
  IF activeConvId # Null
  THEN ChatArea(messages, streamingContent, liveTrace, isLoading)
  ELSE ChatArea(<<>>, <<>>, <<>>, FALSE)

\* C31: whenever a session is busy and the streaming text is non-empty,
\* the chat area shows that text as it is, whether or not the live trace
\* is empty.
C31_StreamingTextShown ==
  (ActiveSessions # {} /\ isLoading /\ streamingContent # <<>>)
    => AppChatArea.text = streamingContent

\* StreamSpec with the network doing its part: a request that can be
\* answered is answered, and an open response stream ends.
StreamFair ==
  /\ StreamSpec
  /\ WF_vars(FetchOk(1))
  /\ WF_vars(ReadEnd(1))

\* The one submit has been made and its response stream has ended.
StreamClosed == ops = budget /\ budget > 0 /\ creates = <<>> /\ sessions = <<>>

\* C30: a session whose response stream ends leaves the busy state: the
\* busy flag is cleared in the end and a submit is accepted again, also
\* when the stream carried no done and no error event.
C30_StreamEndClearsBusy ==
  StreamClosed ~> (~isLoading /\ SendAccepted(activeConvRef, isLoading))

\* The calls of a session that carry response text.
IsTextCall(c) == c.name \in {"onToken", "onFullResponse"}

TextCalls(calls) == SelectSeq(calls, IsTextCall)

\* A chunk read by a session has made one call.  A trace event is appended
\* to the live trace and the streaming text stays; a stream_token or a
\* full_response sets the streaming text to the session's accumulated text
\* and the live trace stays.  Neither changes the message list, the
\* conversation list, the selection, the busy flag or the requests in
\* flight.
C27Step ==
  \A i \in 1..Len(sessions) :
    (HasRead(i) /\ Len(NewCalls(i)) = 1)
      => LET c == NewCalls(i)[1]
         IN  /\ c.name = "onTrace"
                  => /\ liveTrace' = Append(liveTrace, c.data)
                     /\ sessions'[i].fullResponse = sessions[i].fullResponse
                     /\ UNCHANGED <<streamingContent, messages, conversations,
                                    activeConvId, isLoading, loads, listLoads>>
             /\ IsTextCall(c)
                  => /\ streamingContent' = sessions'[i].fullResponse
                     /\ sessions'[i].fullResponse # <<>>
                     /\ UNCHANGED <<liveTrace, messages, conversations, activeConvId,
                                    isLoading, loads, listLoads>>

\* C27: each streaming event updates one accumulator and nothing else: a
\* trace event only the live trace, a stream_token or full_response event
\* only the streaming text; none of them changes the message list, the
\* conversation list, the selection or the busy flag.
C27_OneAccumulatorPerEvent == [][C27Step]_vars

\* A streaming session has received a trace event, a token and a full
\* response: both accumulators are filled, the controller is busy and the
\* list still ends with the optimistic message.
C27_Witness ==
  \E i \in 1..Len(sessions) :
    /\ CallNames(sessions[i].calls) = {"onTrace", "onToken", "onFullResponse"}
    /\ liveTrace # <<>>
    /\ streamingContent # <<>>
    /\ isLoading
    /\ Last(messages).id = sessions[i].tempId

RECURSIVE LastFullIndex(_)
LastFullIndex(tc) ==
  IF tc = <<>> THEN 0
  ELSE IF Last(tc).name = "onFullResponse" THEN Len(tc)
  ELSE LastFullIndex(Front(tc))

\* The text the events so far amount to: the payload of the most recent
\* full_response, if any, then the payloads of the tokens after it.
AccumulatedText(calls) ==
  LET tc == TextCalls(calls)
      k == LastFullIndex(tc)
      from == IF k = 0 THEN 1 ELSE k
  IN  [j \in 1..(Len(tc) - from + 1) |-> tc[from + j - 1].data.message]

IsEffectCall(c) == c.name \in {"onToken", "onFullResponse", "onDone", "onError"}

\* C2: the text a session has accumulated is the payload of its latest
\* full_response event followed by the payloads of the stream_token events
\* after it, in arrival order; and right after a token or a full response
\* the streaming text on display is that accumulated text.
C2_TokensConcatenate ==
  \A i \in 1..Len(sessions) :
    /\ sessions[i].fullResponse = AccumulatedText(sessions[i].calls)
    /\ LET eff == SelectSeq(sessions[i].calls, IsEffectCall)
       IN  eff # <<>> /\ IsTextCall(Last(eff))
             => streamingContent = sessions[i].fullResponse

\* A session has received a token, then a full response, then a token.
C2_Witness ==
  /\ Len(sessions) = 1
  /\ LET tc == TextCalls(sessions[1].calls)
     IN  /\ Len(tc) = 3
         /\ tc[1].name = "onToken"
         /\ tc[2].name = "onFullResponse"
         /\ tc[3].name = "onToken"
  /\ sessions[1].fullResponse = <<"F", "a">>
  /\ streamingContent = <<"F", "a">>

\* A line that carries a JSON value: 'data: ' and well-formed JSON text.
Decodable(line) ==
  StartsWithData(Trim(line)) /\ JSONParse(Tail(Trim(line))) # JThrow

DataOf(line) == JSONParse(Tail(Trim(line)))

\* The handler the dispatch table names for a decoded value.
TableHandler(data) ==
  CASE data.type = "done"          -> "onDone"
    [] data.type = "error"         -> "onError"
    [] data.type = "full_response" -> "onFullResponse"
    [] data.type = "stream_token"  -> "onToken"
    [] OTHER                       -> "onTrace"

\* C5 as stated: every successfully decoded frame goes to exactly the one
\* handler the table names for its type, a frame of unknown or missing type
\* to the trace handler.
C5_EveryDecodedFrameDispatched ==
  \A i \in 1..Len(sessions) :
    \A k \in 1..Len(sessions[i].lines) :
      Decodable(sessions[i].lines[k])
        => sessions[i].calls[k] =
             [name |-> TableHandler(DataOf(sessions[i].lines[k])),
              data |-> DataOf(sessions[i].lines[k])]

\* C5 amended: every decoded frame whose value is not null goes to exactly
\* the one handler the table names for its type, a frame of unknown or
\* missing type to the trace handler; a frame whose value is null reaches
\* no handler.
C5_DecodedObjectsDispatched ==
  \A i \in 1..Len(sessions) :
    /\ Len(sessions[i].calls) = Len(sessions[i].lines)
    /\ \A k \in 1..Len(sessions[i].lines) :
         LET line == sessions[i].lines[k]
         IN  Decodable(line)
               => sessions[i].calls[k] =
                    IF DataOf(line) = JNull THEN NoCall
                    ELSE [name |-> TableHandler(DataOf(line)), data |-> DataOf(line)]

\* A session has dispatched a frame of unknown type, a frame without a
\* type and an error frame.
C5_Witness ==
  /\ Len(sessions) = 1
  /\ sessions[1].lines = <<<<"P", "trT">>, <<"P", "trU">>, <<"P", "error">>>>
  /\ liveTrace = <<>>
  /\ ~isLoading

\* A session has read a null frame.
C5_NullWitness ==
  /\ Len(sessions) = 1
  /\ <<"P", "null">> \in Range(sessions[1].lines)

\* A line the dispatch ignores: no data prefix, or malformed JSON.
IsBadLine(line) == ~Decodable(line)

IsGoodLine(line) == Decodable(line)

\* One pass of the read loop has the effect of the pass over the chunk's
\* decodable lines alone, and invokes no callback for the others.
C6Step ==
  \A i \in 1..Len(sessions) :
    (/\ Len(sessions') = Len(sessions)
     /\ sessions'[i].nread > sessions[i].nread)
      => LET lines == SubSeq(sessions'[i].lines, Len(sessions[i].lines) + 1,
                             Len(sessions'[i].lines))
             calls == SubSeq(sessions'[i].calls, Len(sessions[i].calls) + 1,
                             Len(sessions'[i].calls))
             st == ApplyLines(CallbackState(i), sessions[i].convId,
                              SelectSeq(lines, IsGoodLine), now')
         IN  /\ messages' = st.messages
             /\ isLoading' = st.isLoading
             /\ streamingContent' = st.streamingContent
             /\ liveTrace' = st.liveTrace
             /\ loads' = st.loads
             /\ listLoads' = st.listLoads
             /\ sessions'[i].fullResponse = st.fullResponse
             /\ Len(calls) = Len(lines)
             /\ SelectSeq(calls, LAMBDA c : c.name # "none")
                  = SelectSeq(st.calls, LAMBDA c : c.name # "none")
             /\ \A k \in 1..Len(lines) : IsBadLine(lines[k]) => calls[k] = NoCall

\* C6: a line without the data prefix, or whose JSON is malformed, changes
\* no state and does not stop the stream: the lines after it, in the same
\* chunk and in later chunks, take effect as if it had not been there.
C6_BadFramesIgnored == [][C6Step]_vars

\* After a comment line and a line of malformed JSON, a token has been
\* appended to the response.
C6_Witness ==
  /\ Len(sessions) = 1
  /\ sessions[1].lines = <<<<"X">>, <<"P", "X">>, <<"P", "tokA">>>>
  /\ streamingContent = <<"a">>

====
